---- MODULE Spec2Model ----
(***************************************************************************)
(* A model of seed_revenue.py, the FPT branch revenue seeder.              *)
(*                                                                         *)
(* Units.  TLC's integers are 32 bits wide and the revenues reach 27e9     *)
(* VND, so money is counted in units of 100 VND (MILLION = 10000 units),   *)
(* the base draw in units of 1e8 VND, and the multipliers as the           *)
(* numerators of exact fractions: branch and quarter factors in            *)
(* twentieths, year factors in twenty-fifths, noise in hundredths.  The    *)
(* denominators multiply to 20*20*25*100 = 1e6, so                         *)
(*   base[1e8 VND] * branch * quarter * year * noise                       *)
(* is the exact product of the code's factors in units of 100 VND.         *)
(***************************************************************************)
EXTENDS Integers, Sequences, FiniteSets, TLC

(* ------------------------------ bounds -------------------------------- *)

\* Number of consecutive runs of the seeder against the same store.
MaxRuns == 2

\* The shared random source has RngMod states (an abstraction of the
\* Mersenne Twister behind the random module).
RngMod == 8

\* Number of generate_revenue calls in the specification of the generator.
MaxCalls == 3

\* The seeds passed to generate_revenue there are 1..MaxSeed.
MaxSeed == 2

(* ----------------------------- constants ------------------------------ *)

\* BRANCHES.items(): a dict iterates in insertion order.
BranchOrderSorted == <<"DN", "HCM", "HN">>
BranchOrder == <<"HCM", "HN", "DN">>

BRANCHES ==
    [c \in {"HCM", "HN", "DN"} |->
        CASE c = "HCM" -> [name |-> "Ho Chi Minh", multiplier |-> 20]
          [] c = "HN"  -> [name |-> "Ha Noi",      multiplier |-> 17]
          [] c = "DN"  -> [name |-> "Da Nang",     multiplier |-> 12]]

\* Twentieths: 0.90, 1.00, 1.05, 1.15.
QUARTERLY_MULTIPLIERS == (1 :> 18) @@ (2 :> 20) @@ (3 :> 21) @@ (4 :> 23)

\* Twenty-fifths: 1.0, 1.08.
YEAR_MULTIPLIERS == (2024 :> 25) @@ (2025 :> 27)

\* Units of 1e8 VND.
BASE_REVENUE_MIN == 120
BASE_REVENUE_MAX == 200

\* Hundredths.
NOISE_RANGE == 10

\* 1,000,000 VND in units of 100 VND.
MILLION == 10000

\* for year in [2024, 2025]
YEARS == <<2024, 2025>>

\* range(1, 13)
MonthsShort == 1..11
Months == 1..12

(* --------------------------- pure functions --------------------------- *)

get_quarter_off_by_one(month) == month \div 3 + 1
get_quarter(month) == (month - 1) \div 3 + 1

\* calendar.isleap and calendar.mdays, as calendar.monthrange uses them.
isleap(year) == year % 4 = 0 /\ (year % 100 # 0 \/ year % 400 = 0)
mdays == <<31, 28, 31, 30, 31, 30, 31, 31, 30, 31, 30, 31>>
monthrange(year, month) ==
    mdays[month] + (IF month = 2 /\ isleap(year) THEN 1 ELSE 0)

\* A date is <<year, month, day>>.
get_last_day_of_month_no_leap(year, month) == <<year, month, mdays[month]>>
get_last_day_of_month(year, month) == <<year, month, monthrange(year, month)>>

\* round(): Python 3 rounds a tie to the even neighbour.
round_half_even(n, d) ==
    LET q == n \div d
        r == n % d
    IN  IF 2 * r > d THEN q + 1
        ELSE IF 2 * r < d THEN q
        ELSE IF q % 2 = 0 THEN q ELSE q + 1

\* Lines 103-114 of generate_revenue, given its two draws: the exact
\* product, in units of 100 VND.
revenue_product(branch_multiplier, quarter, year, base, noise) ==
    base * branch_multiplier * QUARTERLY_MULTIPLIERS[quarter]
         * YEAR_MULTIPLIERS[year] * noise

\* The value returned for the two draws.  The code multiplies doubles, so
\* when the exact product lies half way between two millions the double
\* can fall on either side of the tie: both neighbours are outcomes there.
revenue_outcomes_truncated(branch_multiplier, quarter, year, base, noise) ==
    {revenue_product(branch_multiplier, quarter, year, base, noise)}
revenue_outcomes(branch_multiplier, quarter, year, base, noise) ==
    LET revenue == revenue_product(branch_multiplier, quarter, year, base, noise)
        q == revenue \div MILLION
    IN  IF 2 * (revenue % MILLION) = MILLION
        THEN {q * MILLION, (q + 1) * MILLION}
        ELSE {round_half_even(revenue, MILLION) * MILLION}

\* One deterministic outcome per pair of draws (the same doubles give the
\* same result): the tie goes to the even neighbour.
revenue_of_draws(branch_multiplier, quarter, year, base, noise) ==
    round_half_even(
        revenue_product(branch_multiplier, quarter, year, base, noise),
        MILLION) * MILLION

(* ------------------------- the random source -------------------------- *)

RngStates == 0..(RngMod - 1)

\* random.seed(n): the state becomes a function of n alone.
random_seed(n) == n % RngMod

\* The state after one call of random.random().
random_next(s) == (5 * s + 3) % RngMod

\* random.uniform(a, b) = a + (b - a) * random.random(), drawn in state s;
\* the end point b can be returned (rounding).
random_uniform(a, b, s) == a + ((b - a) * s) \div (RngMod - 1)

None == <<>>
Some(n) == <<n>>

\* generate_revenue, lines 96-114: the revenue and the state of the random
\* source after the call.
generate_revenue_never_reseeds(branch_multiplier, quarter, year, seed, state) ==
    LET s0 == state
        base == random_uniform(BASE_REVENUE_MIN, BASE_REVENUE_MAX, s0)
        s1 == random_next(s0)
        noise == random_uniform(100 - NOISE_RANGE, 100 + NOISE_RANGE, s1)
    IN  [revenue |-> revenue_of_draws(branch_multiplier, quarter, year, base, noise),
         state |-> random_next(s1)]
generate_revenue(branch_multiplier, quarter, year, seed, state) ==
    LET s0 == IF seed # None THEN random_seed(seed[1]) ELSE state
        base == random_uniform(BASE_REVENUE_MIN, BASE_REVENUE_MAX, s0)
        s1 == random_next(s0)
        noise == random_uniform(100 - NOISE_RANGE, 100 + NOISE_RANGE, s1)
    IN  [revenue |-> revenue_of_draws(branch_multiplier, quarter, year, base, noise),
         state |-> random_next(s1)]

(* ------------------------------- state -------------------------------- *)

VARIABLES
    pc,           \* the statement of main about to run, or "done" / "failed"
    run,          \* number of the current run of the script against the store
    rng,          \* state of the shared random source
    conn,         \* "none", "open", "closed" or "lost" (process ended, not closed)
    conns,        \* connections acquired by this run
    store,        \* the committed branch_revenue table
    store0,       \* the committed table when this run started
    txn,          \* the table as the open connection's transaction sees it
    records,      \* seed_data's list
    yi,           \* position in YEARS of the year loop
    month,        \* the month loop's variable
    bi,           \* position of the branch loop; 0: the month's body starts
    quarter,      \* seed_data's local
    report_date,  \* seed_data's local
    inserted,     \* rows executemany has sent
    log,          \* the steps of main this run has completed, in order
    exc,          \* the exception raised in this run, or None
    failedAt,     \* the step that raised it
    caught,       \* number of except clauses entered in this run
    marker,       \* the marker the except clause printed
    reraised,     \* the except clause ended in raise
    sample,       \* the rows print_sample_data printed
    banner,       \* the completion banner was printed
    args,         \* generator specifications: the arguments of the last call
    result,       \* generator specifications: what the last call returned
    probe,        \* generator specification: the arguments under comparison
    first,        \* generator specification: the first seeded probe call, by seed
    ncalls        \* generator specification: calls made

mainVars == <<pc, run, conn, conns, store, store0, txn, records, yi, month, bi,
              quarter, report_date, inserted, log, exc, failedAt, caught,
              marker, reraised, sample, banner>>
genVars == <<args, result, probe, first, ncalls>>
vars == <<mainVars, rng, genVars>>

(* ------------------------------ the store ----------------------------- *)

NoTable == [present |-> FALSE, rows |-> <<>>]

\* create_table: DROP TABLE IF EXISTS; CREATE TABLE, in the transaction.
create_table_if_not_exists(t) ==
    IF t.present THEN t ELSE [present |-> TRUE, rows |-> <<>>]
create_table(t) == [present |-> TRUE, rows |-> <<>>]

\* UNIQUE(branch_code, report_date)
UniqueViolation(rows, r) ==
    \E i \in 1..Len(rows) :
        /\ rows[i].branch_code = r.branch_code
        /\ rows[i].report_date = r.report_date

\* The connection is opened without autocommit and main commits once, at
\* line 214: whatever a run executed before it ends without committing is
\* rolled back with the connection.
EndWithoutCommitKeepsWork(committed, working) == working
EndWithoutCommit(committed, working) == committed

\* A commit that raises either took effect on the server or did not.
StoreAfterFailure(step, committed, working) ==
    IF step = "commit"
    THEN {EndWithoutCommit(committed, working), working}
    ELSE {EndWithoutCommit(committed, working)}

(* ----------------------------- exceptions ----------------------------- *)

\* The classes a step can raise, with the base class each derives from.
\* All derive from Exception: an interrupt or an exit request, which do
\* not, is no error of a step and is not modelled.
ExcBase ==
    [c \in {"OperationalError", "IntegrityError", "OSError"} |->
        IF c \in {"OperationalError", "IntegrityError"}
        THEN "psycopg2.Error" ELSE "Exception"]
ExcClasses == DOMAIN ExcBase

IsInstance(c, base) == base = "Exception" \/ ExcBase[c] = base

\* The except clauses of main, lines 225-230: the first that matches runs.
ExceptClausesSwapped ==
    << [class |-> "Exception",      marker |-> "Error"],
       [class |-> "psycopg2.Error", marker |-> "Database error"] >>
ExceptClauses ==
    << [class |-> "psycopg2.Error", marker |-> "Database error"],
       [class |-> "Exception",      marker |-> "Error"] >>

Handler(c) ==
    LET i == CHOOSE k \in 1..Len(ExceptClauses) :
                 /\ IsInstance(c, ExceptClauses[k].class)
                 /\ \A j \in 1..(k - 1) : ~IsInstance(c, ExceptClauses[j].class)
    IN  ExceptClauses[i]

(* ------------------------------- main --------------------------------- *)

\* The statements of main's try block, in program order.
MainStepsCommitBeforeSeed ==
    <<"connect", "create_table", "commit", "seed_loop", "executemany",
      "print_sample", "close">>
MainSteps ==
    <<"connect", "create_table", "seed_loop", "executemany", "commit",
      "print_sample", "close">>

StepAfter(step) ==
    LET i == CHOOSE k \in 1..Len(MainSteps) : MainSteps[k] = step
    IN  IF i < Len(MainSteps) THEN MainSteps[i + 1] ELSE "done"

\* The steps with an effect outside the process, where an error can arise.
Fallible == {"connect", "create_table", "executemany", "commit",
             "print_sample", "close"}

RunStart(r, s, g) ==
    /\ pc = "connect"
    /\ run = r
    /\ rng = g
    /\ conn = "none"
    /\ conns = 0
    /\ store = s
    /\ store0 = s
    /\ txn = NoTable
    /\ records = <<>>
    /\ yi = 1
    /\ month = 1
    /\ bi = 0
    /\ quarter = 0
    /\ report_date = <<>>
    /\ inserted = 0
    /\ log = <<>>
    /\ exc = None
    /\ failedAt = "none"
    /\ caught = 0
    /\ marker = "none"
    /\ reraised = FALSE
    /\ sample = <<>>
    /\ banner = FALSE

GenIdle ==
    /\ args = None
    /\ result = None
    /\ probe = None
    /\ first = None
    /\ ncalls = 0

Init ==
    /\ \E g \in RngStates : RunStart(1, NoTable, g)
    /\ GenIdle

\* The exception c leaves the try block at the current step: the matching
\* except clause prints its marker and re-raises, and the process ends.
Raise(c) ==
    /\ pc' = "failed"
    /\ failedAt' = pc
    /\ exc' = Some(c)
    /\ caught' = caught + 1
    /\ marker' = Handler(c).marker
    /\ reraised' = TRUE
    /\ conn' = IF conn = "open" THEN "lost" ELSE conn
    /\ store' \in StoreAfterFailure(pc, store, txn)
    /\ txn' = NoTable

\* An error of the environment at a fallible step.
Fail ==
    /\ pc \in Fallible
    /\ \E c \in {"OperationalError", "OSError"} : Raise(c)
    /\ UNCHANGED <<run, rng, conns, store0, records, yi, month, bi, quarter,
                   report_date, inserted, log, sample, banner, genVars>>

\* Lines 205-207.
Connect ==
    /\ pc = "connect"
    /\ conn' = "open"
    /\ conns' = conns + 1
    /\ txn' = store
    /\ log' = Append(log, "connect")
    /\ pc' = StepAfter("connect")
    /\ UNCHANGED <<run, rng, store, store0, records, yi, month, bi, quarter,
                   report_date, inserted, exc, failedAt, caught, marker,
                   reraised, sample, banner, genVars>>

\* Line 210.
CreateTable ==
    /\ pc = "create_table"
    /\ txn' = create_table(txn)
    /\ log' = Append(log, "create_table")
    /\ pc' = StepAfter("create_table")
    /\ UNCHANGED <<run, rng, conn, conns, store, store0, records, yi, month,
                   bi, quarter, report_date, inserted, exc, failedAt, caught,
                   marker, reraised, sample, banner, genVars>>

\* Lines 142-145: the body of the month loop up to the branch loop.
SeedMonth ==
    /\ pc = "seed_loop"
    /\ bi = 0
    /\ quarter' = get_quarter(month)
    /\ report_date' = get_last_day_of_month(YEARS[yi], month)
    /\ bi' = 1
    /\ UNCHANGED <<pc, run, rng, conn, conns, store, store0, txn, records, yi,
                   month, inserted, log, exc, failedAt, caught, marker,
                   reraised, sample, banner, genVars>>

\* Lines 147-159: one pass of the branch loop, and the loops' advance.
SeedBranch ==
    /\ pc = "seed_loop"
    /\ bi \in 1..Len(BranchOrder)
    /\ LET branch_code == BranchOrder[bi]
           branch_info == BRANCHES[branch_code]
           g == generate_revenue(branch_info.multiplier, quarter, YEARS[yi],
                                 None, rng)
       IN  /\ records' = Append(records,
                  [branch_code |-> branch_code,
                   branch_name |-> branch_info.name,
                   report_date |-> report_date,
                   revenue_vnd |-> g.revenue])
           /\ rng' = g.state
    /\ IF bi < Len(BranchOrder)
       THEN /\ bi' = bi + 1
            /\ UNCHANGED <<pc, yi, month>>
       ELSE /\ bi' = 0
            /\ IF month + 1 \in Months
               THEN UNCHANGED <<pc, yi>> /\ month' = month + 1
               ELSE IF yi < Len(YEARS)
               THEN UNCHANGED pc /\ yi' = yi + 1 /\ month' = 1
               ELSE UNCHANGED <<yi, month>> /\ pc' = StepAfter("seed_loop")
    /\ UNCHANGED <<run, conn, conns, store, store0, txn, quarter, report_date,
                   inserted, log, exc, failedAt, caught, marker, reraised,
                   sample, banner, genVars>>

\* Lines 162-168: executemany sends one INSERT per record, in list order; a
\* row that breaks the uniqueness constraint raises IntegrityError.
InsertRow ==
    /\ pc = "executemany"
    /\ inserted < Len(records)
    /\ LET r == records[inserted + 1]
       IN  IF UniqueViolation(txn.rows, r)
           THEN /\ Raise("IntegrityError")
                /\ UNCHANGED <<inserted>>
           ELSE /\ txn' = [txn EXCEPT !.rows = Append(@, r)]
                /\ inserted' = inserted + 1
                /\ UNCHANGED <<pc, conn, store, exc, failedAt, caught, marker,
                               reraised>>
    /\ UNCHANGED <<run, rng, conns, store0, records, yi, month, bi, quarter,
                   report_date, log, sample, banner, genVars>>

\* Lines 170-171: seed_data returns its list.
SeedReturn ==
    /\ pc = "executemany"
    /\ inserted = Len(records)
    /\ log' = Append(log, "seed_data")
    /\ pc' = StepAfter("executemany")
    /\ UNCHANGED <<run, rng, conn, conns, store, store0, txn, records, yi,
                   month, bi, quarter, report_date, inserted, exc, failedAt,
                   caught, marker, reraised, sample, banner, genVars>>

\* Line 214.
Commit ==
    /\ pc = "commit"
    /\ store' = txn
    /\ log' = Append(log, "commit")
    /\ pc' = StepAfter("commit")
    /\ UNCHANGED <<run, rng, conn, conns, store0, txn, records, yi, month, bi,
                   quarter, report_date, inserted, exc, failedAt, caught,
                   marker, reraised, sample, banner, genVars>>

\* records[:3] + records[-3:]
print_sample_data(recs) ==
    LET n == Len(recs)
        head == SubSeq(recs, 1, IF n < 3 THEN n ELSE 3)
        tail == SubSeq(recs, IF n < 3 THEN 1 ELSE n - 2, n)
    IN  head \o tail

\* Line 218.
PrintSample ==
    /\ pc = "print_sample"
    /\ sample' = print_sample_data(records)
    /\ log' = Append(log, "print_sample_data")
    /\ pc' = StepAfter("print_sample")
    /\ UNCHANGED <<run, rng, conn, conns, store, store0, txn, records, yi,
                   month, bi, quarter, report_date, inserted, exc, failedAt,
                   caught, marker, reraised, banner, genVars>>

\* Lines 221-223.
Close ==
    /\ pc = "close"
    /\ conn' = "closed"
    /\ txn' = NoTable
    /\ banner' = TRUE
    /\ log' = Append(log, "close")
    /\ pc' = StepAfter("close")
    /\ UNCHANGED <<run, rng, conns, store, store0, records, yi, month, bi,
                   quarter, report_date, inserted, exc, failedAt, caught,
                   marker, reraised, sample, genVars>>

\* The script is run again, in a new process, against the same store.
Rerun ==
    /\ pc \in {"done", "failed"}
    /\ run < MaxRuns
    /\ \E g \in RngStates :
         /\ pc' = "connect"
         /\ run' = run + 1
         /\ rng' = g
         /\ conn' = "none"
         /\ conns' = 0
         /\ store0' = store
         /\ txn' = NoTable
         /\ records' = <<>>
         /\ yi' = 1
         /\ month' = 1
         /\ bi' = 0
         /\ quarter' = 0
         /\ report_date' = <<>>
         /\ inserted' = 0
         /\ log' = <<>>
         /\ exc' = None
         /\ failedAt' = "none"
         /\ caught' = 0
         /\ marker' = "none"
         /\ reraised' = FALSE
         /\ sample' = <<>>
         /\ banner' = FALSE
    /\ UNCHANGED <<store, genVars>>

Next ==
    \/ Connect
    \/ CreateTable
    \/ SeedMonth
    \/ SeedBranch
    \/ InsertRow
    \/ SeedReturn
    \/ Commit
    \/ PrintSample
    \/ Close
    \/ Fail
    \/ Rerun

Spec == Init /\ [][Next]_vars

(* --------------------- generate_revenue on its own --------------------- *)

BranchMultipliers == {BRANCHES[c].multiplier : c \in DOMAIN BRANCHES}

\* random.uniform(BASE_REVENUE_MIN, BASE_REVENUE_MAX), in steps of 1e8 VND,
\* and random.uniform(1 - NOISE_RANGE, 1 + NOISE_RANGE), in hundredths.
BaseDraws == BASE_REVENUE_MIN..BASE_REVENUE_MAX
NoiseDraws == (100 - NOISE_RANGE)..(100 + NOISE_RANGE)

CallArgs ==
    [branch_multiplier : BranchMultipliers,
     quarter : DOMAIN QUARTERLY_MULTIPLIERS,
     year : DOMAIN YEAR_MULTIPLIERS]

\* Every valid argument triple with every pair of draws.
InitRevenue ==
    /\ RunStart(1, NoTable, 0)
    /\ \E a \in CallArgs, base \in BaseDraws, noise \in NoiseDraws :
         args = Some([branch_multiplier |-> a.branch_multiplier,
                      quarter |-> a.quarter, year |-> a.year,
                      base |-> base, noise |-> noise])
    /\ result = None
    /\ probe = None
    /\ first = None
    /\ ncalls = 0

\* Lines 103-114 applied to the draws.
GenerateFromDraws ==
    /\ args # None
    /\ result = None
    /\ \E v \in revenue_outcomes(args[1].branch_multiplier, args[1].quarter,
                                 args[1].year, args[1].base, args[1].noise) :
         result' = Some(v)
    /\ ncalls' = ncalls + 1
    /\ UNCHANGED <<mainVars, rng, args, probe, first>>

NextRevenue == GenerateFromDraws

SpecRevenue == InitRevenue /\ [][NextRevenue]_vars

(* ------------------ generate_revenue and the shared source ------------- *)

Seeds == 1..MaxSeed

\* The random source is in any state; one argument triple is singled out.
InitRng ==
    /\ \E g \in RngStates : RunStart(1, NoTable, g)
    /\ \E a \in CallArgs : probe = Some(a)
    /\ args = None
    /\ result = None
    /\ first = [s \in Seeds |-> None]
    /\ ncalls = 0

\* generate_revenue(a.branch_multiplier, a.quarter, a.year, seed)
Call(a, seed) ==
    /\ ncalls < MaxCalls
    /\ LET g == generate_revenue(a.branch_multiplier, a.quarter, a.year,
                                 seed, rng)
       IN  /\ rng' = g.state
           /\ result' = Some(g.revenue)
           /\ args' = Some([branch_multiplier |-> a.branch_multiplier,
                            quarter |-> a.quarter, year |-> a.year,
                            seed |-> seed, before |-> rng])
           /\ first' = IF seed # None /\ Some(a) = probe /\ first[seed[1]] = None
                       THEN [first EXCEPT ![seed[1]] =
                                Some([before |-> rng, revenue |-> g.revenue])]
                       ELSE first
    /\ ncalls' = ncalls + 1
    /\ UNCHANGED <<mainVars, probe>>

\* The calls made: the singled-out triple and the same month's calls for
\* the other branches (the random source does not read the arguments).
ArgsOfCalls ==
    {a \in CallArgs : a.quarter = probe[1].quarter /\ a.year = probe[1].year}

CallSeeded == \E a \in ArgsOfCalls, n \in Seeds : Call(a, Some(n))

CallUnseeded == \E a \in ArgsOfCalls : Call(a, None)

NextRng == CallSeeded \/ CallUnseeded

SpecRng == InitRng /\ [][NextRng]_vars

(* ------------------------------ properties ---------------------------- *)

\* seed_data's loops have finished.
RecordsBuilt ==
    LET after == {"executemany", "commit", "print_sample", "close", "done"}
    IN  pc \in after \/ (pc = "failed" /\ failedAt \in after)

Key(r) == <<r.branch_code, r.report_date>>

\* C1: once seed_data has assembled its list, the list holds exactly 72
\* records and no two of them share (branch_code, report_date).
C1_SeventyTwoDistinctRecords ==
    RecordsBuilt =>
        /\ Len(records) = 72
        /\ Cardinality({Key(records[i]) : i \in 1..Len(records)}) = Len(records)

C1_Witness == pc = "commit" /\ Len(records) = 72 /\ inserted = 72

\* C2: for every branch factor, quarter, year and pair of draws,
\* generate_revenue returns a non-negative multiple of 1,000,000 between
\* 12e9 x 0.6 x 0.90 x 1.0 x 0.90 and 20e9 x 1.0 x 1.15 x 1.08 x 1.10
\* (here in units of 100 VND).
C2_RevenueIsBoundedMultipleOfMillion ==
    result # None =>
        /\ result[1] >= 0
        /\ result[1] % 10000 = 0
        /\ result[1] >= 120 * 12 * 18 * 25 * 90
        /\ result[1] <= 200 * 20 * 23 * 27 * 110

\* The largest revenue is returned, and so is a rounded one.
C2_Witness ==
    /\ result = Some(273240000)
    /\ args[1].base = 200
    /\ args[1].noise = 110

\* An independent calendar: the day number of a civil date and back.
DaysFromCivil(d) ==
    LET y == IF d[2] <= 2 THEN d[1] - 1 ELSE d[1]
        era == y \div 400
        yoe == y - era * 400
        mp == (d[2] + 9) % 12
        doy == (153 * mp + 2) \div 5 + d[3] - 1
        doe == yoe * 365 + yoe \div 4 - yoe \div 100 + doy
    IN  era * 146097 + doe - 719468

CivilFromDays(n) ==
    LET z == n + 719468
        era == z \div 146097
        doe == z - era * 146097
        yoe == (doe - doe \div 1460 + doe \div 36524 - doe \div 146096) \div 365
        doy == doe - (365 * yoe + yoe \div 4 - yoe \div 100)
        mp == (5 * doy + 2) \div 153
        day == doy - (153 * mp + 2) \div 5 + 1
        m == IF mp < 10 THEN mp + 3 ELSE mp - 9
        y == yoe + era * 400 + (IF m <= 2 THEN 1 ELSE 0)
    IN  <<y, m, day>>

\* d is a date of the calendar and the day after it is the first of the
\* next month.
IsLastDayOfMonth(d) ==
    /\ CivilFromDays(DaysFromCivil(d)) = d
    /\ CivilFromDays(DaysFromCivil(d) + 1) =
           IF d[2] = 12 THEN <<d[1] + 1, 1, 1>> ELSE <<d[1], d[2] + 1, 1>>

\* C3: the report_date computed for (year, month) is the last calendar day
\* of that month of that year, February 2024 giving the 29th and February
\* 2025 the 28th, and every record built carries such a date.
C3_ReportDateIsLastDayOfMonth ==
    /\ (pc = "seed_loop" /\ bi >= 1) =>
           /\ report_date[1] = YEARS[yi]
           /\ report_date[2] = month
           /\ IsLastDayOfMonth(report_date)
    /\ \A d \in {records[i].report_date : i \in 1..Len(records)} :
           /\ d[1] \in {2024, 2025}
           /\ d[2] \in 1..12
           /\ IsLastDayOfMonth(d)
           /\ (d[1] = 2024 /\ d[2] = 2) => d[3] = 29
           /\ (d[1] = 2025 /\ d[2] = 2) => d[3] = 28
    /\ RecordsBuilt =>
           \A y \in {2024, 2025}, m \in 1..12 :
               \E i \in 1..Len(records) :
                   /\ records[i].report_date[1] = y
                   /\ records[i].report_date[2] = m

C3_Witness ==
    /\ pc = "done"
    /\ \E i, j \in 1..Len(records) :
           /\ records[i].report_date = <<2024, 2, 29>>
           /\ records[j].report_date = <<2025, 2, 28>>

\* C4: for every month of the loop the quarter computed is 1 for months
\* 1-3, 2 for 4-6, 3 for 7-9 and 4 for 10-12, and so a key of the
\* seasonal-factor table.
C4_QuarterOfMonth ==
    (pc = "seed_loop" /\ bi >= 1) =>
        /\ quarter = <<1, 1, 1, 2, 2, 2, 3, 3, 3, 4, 4, 4>>[month]
        /\ quarter \in DOMAIN QUARTERLY_MULTIPLIERS

C4_Witness == pc = "seed_loop" /\ bi = 3 /\ month = 12 /\ quarter = 4

DatabaseErrors == {"OperationalError", "IntegrityError"}

\* C6: an exception raised by a step of main is caught once, reported with
\* the marker of its category and re-raised; the failing step completes
\* nothing, and after the failure the run executes no further step (no
\* commit, no banner, no retry): only a new run of the script follows.
C6_ErrorCaughtOnceAndReraised ==
    [][ /\ (pc # "failed" /\ pc' = "failed") =>
               /\ caught' = 1
               /\ reraised'
               /\ marker' = IF exc'[1] \in DatabaseErrors
                            THEN "Database error" ELSE "Error"
               /\ log' = log
               /\ banner' = FALSE
               /\ conns' = conns
        /\ pc' # "failed" => caught' = 0 /\ marker' = "none" /\ ~reraised'
        /\ pc = "failed" => pc' = "connect" /\ run' = run + 1 /\ log' = <<>>
      ]_vars

C6_Witness ==
    /\ pc = "failed"
    /\ failedAt = "commit"
    /\ exc = Some("OperationalError")
    /\ marker = "Database error"
    /\ caught = 1

\* C7 as stated: what a failed run leaves behind depends on the stage that
\* failed, with no transaction around creation and seeding: after a failed
\* create the old table is gone or untouched, after a failed insert the new
\* table holds the rows inserted so far, and later all of them.
C7_FailureLeavesStageDependentTable ==
    pc = "failed" =>
        CASE failedAt = "connect" -> store = store0
          [] failedAt = "create_table" -> ~store.present \/ store = store0
          [] failedAt = "executemany" ->
                 store.present /\ store.rows = SubSeq(records, 1, inserted)
          [] OTHER -> store.present /\ store.rows = records

\* C7, amended: a run that fails before its commit leaves the committed
\* table exactly as the run found it; a run whose commit raises leaves it
\* either as found or fully seeded by this run; a run that fails after the
\* commit leaves it fully seeded.  The table is never partially seeded.
C7_FailedRunIsAllOrNothing ==
    /\ pc = "failed" =>
           CASE failedAt \in {"connect", "create_table", "executemany"} ->
                    store = store0
             [] failedAt = "commit" ->
                    \/ store = store0
                    \/ store.present /\ store.rows = records
             [] OTHER -> store.present /\ store.rows = records
    /\ store.present => Len(store.rows) = 72

\* The insert of a second run fails half way: the first run's rows stay.
C7_Witness ==
    /\ pc = "failed"
    /\ failedAt = "executemany"
    /\ inserted = 36
    /\ store0.present
    /\ store = store0
    /\ store.rows # records

\* C8: the record at 0-based index i is the one of year index i div 36,
\* month (i mod 36) div 3 + 1 and branch index i mod 3 of (HCM, HN, DN);
\* the rows are inserted in that order and the sample printed is the
\* first three (January 2024) and the last three (December 2025) of it.
C8_RecordsInIterationOrder ==
    /\ \A k \in 0..(Len(records) - 1) :
           /\ records[k + 1].branch_code = <<"HCM", "HN", "DN">>[(k % 3) + 1]
           /\ records[k + 1].report_date[1] = <<2024, 2025>>[(k \div 36) + 1]
           /\ records[k + 1].report_date[2] = (k % 36) \div 3 + 1
    /\ pc \in {"executemany", "commit"} =>
           txn.rows = SubSeq(records, 1, inserted)
    /\ pc \in {"close", "done"} =>
           /\ sample = <<records[1], records[2], records[3],
                         records[70], records[71], records[72]>>
           /\ \A k \in 1..3 :
                  /\ sample[k].report_date = <<2024, 1, 31>>
                  /\ sample[k + 3].report_date = <<2025, 12, 31>>
                  /\ sample[k].branch_code = <<"HCM", "HN", "DN">>[k]
                  /\ sample[k + 3].branch_code = <<"HCM", "HN", "DN">>[k]

C8_Witness ==
    /\ pc = "done"
    /\ Len(sample) = 6
    /\ sample[4].branch_code = "HCM"
    /\ sample[6].report_date = <<2025, 12, 31>>
    /\ store.rows = records

IsPrefix(s, t) == Len(s) <= Len(t) /\ s = SubSeq(t, 1, Len(s))

InLog(step) == \E i \in 1..Len(log) : log[i] = step

\* C9: a run completes its steps in the order connect, create table,
\* insert, commit, release, on one connection; the only commit of the run
\* comes after the table was created and all 72 records were inserted, and
\* the connection is released only after it.
C9_StepsInOrder ==
    /\ IsPrefix(log, <<"connect", "create_table", "seed_data", "commit",
                       "print_sample_data", "close">>)
    /\ conns <= 1
    /\ InLog("commit") =>
           /\ store.present
           /\ store.rows = records
           /\ inserted = 72
    /\ (store # store0) => (InLog("commit") \/ failedAt = "commit")
    /\ conn = "closed" => InLog("commit")

C9_Witness ==
    /\ pc = "done"
    /\ conn = "closed"
    /\ log = <<"connect", "create_table", "seed_data", "commit",
               "print_sample_data", "close">>

\* C10: a call with a seed returns what the first call with that seed and
\* those arguments returned, whatever the random source's state before it,
\* and leaves the source where the seed puts it; a call without a seed
\* draws base and noise from the state it finds and leaves the source two
\* draws further.
C10_SeededCallIgnoresPriorState ==
    args # None =>
        LET a == args[1]
            triple == [branch_multiplier |-> a.branch_multiplier,
                       quarter |-> a.quarter, year |-> a.year]
            start == IF a.seed # None THEN a.seed[1] % RngMod ELSE a.before
        IN  /\ (a.seed # None /\ Some(triple) = probe) =>
                   /\ first[a.seed[1]] # None
                   /\ result[1] = first[a.seed[1]][1].revenue
            /\ rng = random_next(random_next(start))
            /\ a.seed = None =>
                   result[1] = revenue_of_draws(
                       a.branch_multiplier, a.quarter, a.year,
                       random_uniform(BASE_REVENUE_MIN, BASE_REVENUE_MAX,
                                      a.before),
                       random_uniform(100 - NOISE_RANGE, 100 + NOISE_RANGE,
                                      random_next(a.before)))

\* The same seed and arguments a second time, from another state of the
\* source, after a call in between.
C10_Witness ==
    /\ ncalls = 3
    /\ args # None
    /\ args[1].seed # None
    /\ Some([branch_multiplier |-> args[1].branch_multiplier,
             quarter |-> args[1].quarter, year |-> args[1].year]) = probe
    /\ first[args[1].seed[1]] # None
    /\ first[args[1].seed[1]][1].before # args[1].before
    /\ args[1].before # random_seed(args[1].seed[1])

====
